---- MODULE Spec2Model ----
(***************************************************************************)
(* Model of the contact-submission endpoint of server/routes/email.js:     *)
(* the rate limiter in front of POST /contact, the sanitizer, the          *)
(* validator, and the asynchronous handler that verifies the SMTP          *)
(* transport and sends the owner notification and the acknowledgement;     *)
(* with it the client side: the ContactForm component that posts to the    *)
(* endpoint (form) and the throttle helper of utils/performance.ts (thr).  *)
(*                                                                         *)
(* Strings are kept as run-length sequences of character classes, so that  *)
(* the lengths the code compares against (2, 100, 10, 5000, 1000) are the  *)
(* real ones: <<[c |-> "x", n |-> 101]>> is a string of 101 ordinary       *)
(* characters.  Classes: "x" an ordinary (alphanumeric) character, "w" a   *)
(* whitespace character, "b" an angle bracket, "@" and ".".  A string is   *)
(* in normal form when no run is empty and no two neighbours share a       *)
(* class; two strings are equal iff their normal forms are.                *)
(***************************************************************************)
EXTENDS Integers, Sequences, FiniteSets, TLC

VARIABLES env, now, store, conn, reqLog, form, thr

vars == <<env, now, store, conn, reqLog, form, thr>>

(***************************************************************************)
(* Bounds of the model.                                                    *)
(***************************************************************************)
NumClients == 2
NumConns == 2
MaxRequests == 3
MaxTimedRequests == 5
MaxTicks == 2
MaxTestRequests == 2
MaxKeyRequests == 4
MaxSubmissions == 3
MaxFormTicks == 8
MaxCalls == 4
MaxThrTicks == 6

Clients == 1..NumClients
Conns == 1..NumConns

(***************************************************************************)
(* Strings.                                                                *)
(***************************************************************************)
Run(c, n) == [c |-> c, n |-> n]

RECURSIVE StrLen(_)
StrLen(s) == IF s = <<>> THEN 0 ELSE Head(s).n + StrLen(Tail(s))

\* Normal form: empty runs dropped, neighbouring runs of one class merged.
RECURSIVE Norm(_)
Norm(s) ==
    IF s = <<>> THEN <<>>
    ELSE IF Head(s).n = 0 THEN Norm(Tail(s))
    ELSE LET r == Norm(Tail(s)) IN
         IF r # <<>> /\ Head(r).c = Head(s).c
         THEN <<Run(Head(s).c, Head(s).n + Head(r).n)>> \o Tail(r)
         ELSE <<Head(s)>> \o r

\* String.prototype.trim: whitespace removed from both ends.
TrimLeft(s) == IF s # <<>> /\ Head(s).c = "w" THEN Tail(s) ELSE s
TrimRight(s) ==
    IF s # <<>> /\ s[Len(s)].c = "w" THEN SubSeq(s, 1, Len(s) - 1) ELSE s
Trim(s) == TrimRight(TrimLeft(Norm(s)))

\* .replace(/[<>]/g, ''): every angle bracket removed.
RemoveAngle(s) == Norm(SelectSeq(s, LAMBDA r : r.c # "b"))

\* .substring(0, k): the first k characters.
RECURSIVE Substring(_, _)
Substring(s, k) ==
    IF s = <<>> \/ k <= 0 THEN <<>>
    ELSE IF Head(s).n >= k THEN <<Run(Head(s).c, k)>>
    ELSE <<Head(s)>> \o Substring(Tail(s), k - Head(s).n)

\* JavaScript values of a body field: a string, or something else.
StringValue(s) == [t |-> "string", s |-> Norm(s)]
Undefined == [t |-> "undefined", s |-> <<>>]
NumberValue == [t |-> "number", s |-> <<>>]

(***************************************************************************)
(* sanitizeInput and validateEmailData.                                    *)
(***************************************************************************)
\* Faulty variant: the angle brackets are left in.
sanitizeInput_KeepAngle(input) ==
    IF input.t # "string" THEN <<>>
    ELSE Substring(Trim(input.s), 1000)

\* sanitizeInput: '' for a non-string; else trim, then remove the angle
\* brackets, then keep the first 1000 characters (in this order).
sanitizeInput(input) ==
    IF input.t # "string" THEN <<>>
    ELSE Substring(RemoveAngle(Trim(input.s)), 1000)

\* A dot-atom over the classes: x-runs separated by single dots.
DotAtom(q) ==
    /\ Len(q) % 2 = 1
    /\ \A i \in 1..Len(q) :
          IF i % 2 = 1 THEN q[i].c = "x" ELSE q[i].c = "." /\ q[i].n = 1

\* validator.validate of email-validator: not empty, at most 254
\* characters, the tester expression (local part a dot-atom, one '@', a
\* domain of at least two labels whose last has at least two characters),
\* local part at most 64 and every domain label at most 63 characters.
validate(email) ==
    /\ email # <<>>
    /\ StrLen(email) <= 254
    /\ LET at == {i \in 1..Len(email) : email[i].c = "@"} IN
       /\ Cardinality(at) = 1
       /\ LET a == CHOOSE i \in at : TRUE
              local == SubSeq(email, 1, a - 1)
              domain == SubSeq(email, a + 1, Len(email))
          IN  /\ email[a].n = 1
              /\ DotAtom(local)
              /\ DotAtom(domain)
              /\ Len(domain) >= 3
              /\ domain[Len(domain)].n >= 2
              /\ StrLen(local) <= 64
              /\ \A i \in 1..Len(domain) : domain[i].n <= 63

NameMin == "Name must be at least 2 characters long"
NameMax == "Name must be less than 100 characters"
EmailInvalid == "Valid email address is required"
MessageMin == "Message must be at least 10 characters long"
MessageMax == "Message must be less than 5000 characters"

\* The five rules, each pushing its message when violated.  The minimum
\* rules measure the trimmed string, the maximum rules the string as given.
\* Faulty variant: the maximum rule of the name is missing.
NameErrors_NoMax(data) ==
    IF data.name = <<>> \/ StrLen(Trim(data.name)) < 2
    THEN <<NameMin>> ELSE <<>>

NameErrors(data) ==
    (IF data.name = <<>> \/ StrLen(Trim(data.name)) < 2
     THEN <<NameMin>> ELSE <<>>)
    \o (IF data.name # <<>> /\ StrLen(data.name) > 100
        THEN <<NameMax>> ELSE <<>>)

EmailErrors(data) ==
    IF data.email = <<>> \/ ~validate(data.email)
    THEN <<EmailInvalid>> ELSE <<>>

MessageErrors(data) ==
    (IF data.message = <<>> \/ StrLen(Trim(data.message)) < 10
     THEN <<MessageMin>> ELSE <<>>)
    \o (IF data.message # <<>> /\ StrLen(data.message) > 5000
        THEN <<MessageMax>> ELSE <<>>)

\* Faulty variant: the first field in error ends the validation.
validateEmailData_ShortCircuit(data) ==
    IF NameErrors(data) # <<>> THEN NameErrors(data)
    ELSE IF EmailErrors(data) # <<>> THEN EmailErrors(data)
    ELSE MessageErrors(data)

validateEmailData(data) ==
    NameErrors(data) \o EmailErrors(data) \o MessageErrors(data)

(***************************************************************************)
(* The request bodies the model submits.                                   *)
(***************************************************************************)
X(n) == <<Run("x", n)>>
Addr(l, d, tld) == <<Run("x", l), Run("@", 1), Run("x", d), Run(".", 1), Run("x", tld)>>

NameInputs ==
    { Undefined, NumberValue,
      StringValue(<<>>),
      StringValue(X(1)),
      StringValue(X(2)),
      StringValue(<<Run("w", 2), Run("x", 2), Run("w", 2)>>),
      StringValue(<<Run("b", 1), Run("w", 1), Run("x", 1)>>),
      StringValue(<<Run("x", 2), Run("w", 99), Run("b", 1)>>),
      StringValue(X(100)),
      StringValue(X(101)),
      StringValue(X(1001)) }

EmailInputs ==
    { Undefined,
      StringValue(<<>>),
      StringValue(X(12)),
      StringValue(Addr(1, 1, 2)),
      StringValue(Addr(2, 7, 3)),
      StringValue(Addr(5, 7, 3)),
      StringValue(Addr(1, 1, 1)),
      StringValue(<<Run("b", 1)>> \o Addr(1, 1, 2) \o <<Run("b", 1)>>),
      StringValue(<<Run("x", 1), Run("w", 1)>> \o Addr(1, 1, 2)) }

MessageInputs ==
    { Undefined,
      StringValue(<<>>),
      StringValue(X(9)),
      StringValue(X(10)),
      StringValue(<<Run("w", 1), Run("x", 10), Run("w", 1)>>),
      StringValue(<<Run("x", 9), Run("w", 2), Run("b", 1)>>),
      StringValue(<<Run("x", 5), Run("w", 1), Run("x", 23)>>),
      StringValue(<<Run("x", 999), Run("w", 3), Run("x", 5)>>),
      StringValue(X(1001)),
      StringValue(X(5001)) }

\* req.body: an object with the three fields, or no parsed body at all.
Body(n, e, m) == [parsed |-> TRUE, name |-> n, email |-> e, message |-> m]
NoBody == [parsed |-> FALSE, name |-> Undefined, email |-> Undefined,
           message |-> Undefined]

AllBodies ==
    {Body(n, e, m) : n \in NameInputs, e \in EmailInputs, m \in MessageInputs}
    \cup {NoBody}

\* The example submission of the specification, and a bad one.
JoBody == Body(StringValue(X(2)), StringValue(Addr(2, 7, 3)),
               StringValue(<<Run("x", 5), Run("w", 1), Run("x", 23)>>))
BadBody == Body(StringValue(X(1)), StringValue(X(12)), StringValue(X(9)))

FewBodies == {JoBody, BadBody}

(***************************************************************************)
(* emailLimiter: express-rate-limit with its in-memory store.  One counter *)
(* per client address; the first request of an address after its window    *)
(* expired opens a new window of windowMs and restarts the count.          *)
(***************************************************************************)
windowMs == 15 * 60 * 1000
max == 3
TickMs == windowMs \div 2

RateLimitBody ==
    [success |-> FALSE,
     message |-> "Too many email requests from this IP, please try again after 15 minutes",
     errors |-> <<>>]

\* The store's record of key ip, made on the key's first request.
NoClient == [known |-> FALSE, totalHits |-> 0, resetTime |-> 0]
getClient(st, ip, t) ==
    IF st[ip].known THEN st[ip]
    ELSE [known |-> TRUE, totalHits |-> 0, resetTime |-> t + windowMs]

\* Faulty variant: the request that opens a new window is not counted.
Increment_FirstUncounted(st, ip, t) ==
    LET client == getClient(st, ip, t) IN
    IF client.resetTime <= t
    THEN [st EXCEPT ![ip] = [client EXCEPT !.totalHits = 0,
                                           !.resetTime = t + windowMs]]
    ELSE [st EXCEPT ![ip] = [client EXCEPT !.totalHits = @ + 1]]

\* Faulty variant: a window still counts at the instant it expires.
Increment_LateExpiry(st, ip, t) ==
    LET client == getClient(st, ip, t)
        cur == IF client.resetTime < t
               THEN [client EXCEPT !.totalHits = 0, !.resetTime = t + windowMs]
               ELSE client
    IN  [st EXCEPT ![ip] = [cur EXCEPT !.totalHits = @ + 1]]

\* Faulty variant: one counter for all keys.
Increment_SharedKey(st, ip, t) ==
    LET client == getClient(st, ip, t)
        cur == IF client.resetTime <= t
               THEN [client EXCEPT !.totalHits = 0, !.resetTime = t + windowMs]
               ELSE client
        hit == [cur EXCEPT !.totalHits = @ + 1]
    IN  [j \in DOMAIN st |-> hit]

\* The store's increment for key ip at time t: an expired window is
\* replaced by one starting at t, then the request is counted.
Increment(st, ip, t) ==
    LET client == getClient(st, ip, t)
        cur == IF client.resetTime <= t
               THEN [client EXCEPT !.totalHits = 0, !.resetTime = t + windowMs]
               ELSE client
    IN  [st EXCEPT ![ip] = [cur EXCEPT !.totalHits = @ + 1]]

\* Faulty variant: one request too many is let through.
LimiterAdmits_OneMore(st, ip) == ~(st[ip].totalHits > max + 1)

\* The limiter lets the request through unless the count exceeds max.
LimiterAdmits(st, ip) == ~(st[ip].totalHits > max)

(***************************************************************************)
(* The handler of POST /contact.                                           *)
(***************************************************************************)
ConfigErrorBody ==
    [success |-> FALSE,
     message |-> "Email service not configured. Please contact the administrator.",
     errors |-> <<>>]
UnavailableBody ==
    [success |-> FALSE,
     message |-> "Email service is temporarily unavailable. Please try again later.",
     errors |-> <<>>]
FailedBody ==
    [success |-> FALSE,
     message |-> "Failed to send email. Please try again later or contact me directly.",
     errors |-> <<>>]
SuccessBody ==
    [success |-> TRUE,
     message |-> "Email sent successfully! I will get back to you soon.",
     errors |-> <<>>]
ValidationBody(errors) ==
    [success |-> FALSE, message |-> "", errors |-> errors]

Response(status, body) == [status |-> status, body |-> body]

\* What an exception thrown by verify or sendMail may carry; the handler
\* passes it to console.error.
Errors == {"ECONNREFUSED", "EAUTH"}
\* Destructuring an undefined req.body throws a TypeError.
BodyError == "TypeError"
ConfigLog == "SMTP credentials not configured"

NoData == [name |-> <<>>, email |-> <<>>, message |-> <<>>]

\* A connection on which no request was made yet.
IdleConn ==
    [pc |-> "idle", route |-> "none", ip |-> 0, body |-> NoBody,
     data |-> NoData,
     errors |-> <<>>, trace |-> <<>>, sent |-> <<>>, failed |-> "none",
     logged |-> "none", res |-> <<>>, prior |-> 0, retry |-> FALSE]

\* Faulty variant: only SMTP_USER is looked at.
CredentialsPresent_UserOnly == env.SMTP_USER # ""

CredentialsPresent == env.SMTP_USER # "" /\ env.SMTP_PASS # ""

\* process.env.CONTACT_EMAIL || 'lokeshtrivedi2004@gmail.com'
DefaultOwner == Addr(17, 5, 3)
OwnerAddress ==
    IF env.CONTACT_EMAIL # <<>> THEN env.CONTACT_EMAIL ELSE DefaultOwner

\* Faulty variant: the owner notification goes to the sender.
ownerMailOptions_ToSender(data) ==
    [to |-> data.email, replyTo |-> data.email, name |-> data.name,
     message |-> data.message]

ownerMailOptions(data) ==
    [to |-> OwnerAddress, replyTo |-> data.email, name |-> data.name,
     message |-> data.message]
autoReplyOptions(data) ==
    [to |-> data.email, replyTo |-> <<>>, name |-> data.name,
     message |-> <<>>]

\* Faulty variant: a single violation is let through.
HandlerStart_Threshold(c, body) ==
    IF ~body.parsed
    THEN [c EXCEPT !.pc = "done", !.failed = "body", !.logged = BodyError,
                   !.res = <<Response(500, FailedBody)>>]
    ELSE
    LET data == [name |-> sanitizeInput(body.name),
                 email |-> sanitizeInput(body.email),
                 message |-> sanitizeInput(body.message)]
        validationErrors == validateEmailData(data)
        d == [c EXCEPT !.data = data, !.errors = validationErrors,
                       !.trace = <<"sanitize", "validate">>]
    IN  IF Len(validationErrors) > 1
        THEN [d EXCEPT !.pc = "done",
                       !.res = <<Response(400, ValidationBody(validationErrors))>>]
        ELSE IF ~CredentialsPresent
        THEN [d EXCEPT !.pc = "done", !.logged = ConfigLog,
                       !.trace = @ \o <<"checkCredentials">>,
                       !.res = <<Response(500, ConfigErrorBody)>>]
        ELSE [d EXCEPT !.pc = "verify",
                       !.trace = @ \o <<"checkCredentials",
                                        "createTransporter", "verify">>]

\* Faulty variant: the 400 answer is sent without returning.
HandlerStart_NoReturn(c, body) ==
    IF ~body.parsed
    THEN [c EXCEPT !.pc = "done", !.failed = "body", !.logged = BodyError,
                   !.res = <<Response(500, FailedBody)>>]
    ELSE
    LET data == [name |-> sanitizeInput(body.name),
                 email |-> sanitizeInput(body.email),
                 message |-> sanitizeInput(body.message)]
        validationErrors == validateEmailData(data)
        d == [c EXCEPT !.data = data, !.errors = validationErrors,
                       !.trace = <<"sanitize", "validate">>,
                       !.res = IF Len(validationErrors) > 0
                               THEN <<Response(400, ValidationBody(validationErrors))>>
                               ELSE <<>>]
    IN  IF ~CredentialsPresent
        THEN [d EXCEPT !.pc = "done", !.logged = ConfigLog,
                       !.trace = @ \o <<"checkCredentials">>,
                       !.res = @ \o <<Response(500, ConfigErrorBody)>>]
        ELSE [d EXCEPT !.pc = "verify",
                       !.trace = @ \o <<"checkCredentials",
                                        "createTransporter", "verify">>]

\* The handler from its start to its first await (or to its response):
\* destructure the body, sanitize, validate, check the credentials, create
\* the transporter and call verify.
HandlerStart(c, body) ==
    IF ~body.parsed
    THEN [c EXCEPT !.pc = "done", !.failed = "body", !.logged = BodyError,
                   !.res = <<Response(500, FailedBody)>>]
    ELSE
    LET data == [name |-> sanitizeInput(body.name),
                 email |-> sanitizeInput(body.email),
                 message |-> sanitizeInput(body.message)]
        validationErrors == validateEmailData(data)
        d == [c EXCEPT !.data = data, !.errors = validationErrors,
                       !.trace = <<"sanitize", "validate">>]
    IN  IF Len(validationErrors) > 0
        THEN [d EXCEPT !.pc = "done",
                       !.res = <<Response(400, ValidationBody(validationErrors))>>]
        ELSE IF ~CredentialsPresent
        THEN [d EXCEPT !.pc = "done", !.logged = ConfigLog,
                       !.trace = @ \o <<"checkCredentials">>,
                       !.res = <<Response(500, ConfigErrorBody)>>]
        ELSE [d EXCEPT !.pc = "verify",
                       !.trace = @ \o <<"checkCredentials",
                                        "createTransporter", "verify">>]

\* Faulty variant: the catch of verify answers but does not return.
AfterVerifyFail_NoReturn(c, err) ==
    [c EXCEPT !.pc = "sendOwner", !.failed = "verify", !.logged = err,
              !.res = @ \o <<Response(500, UnavailableBody)>>,
              !.trace = @ \o <<"sendMail">>]

\* Faulty variant: success is answered after the owner notification alone.
AfterOwnerOk_NoAck(c) ==
    [c EXCEPT !.pc = "done", !.sent = @ \o <<ownerMailOptions(c.data)>>,
              !.res = @ \o <<Response(200, SuccessBody)>>]

\* Faulty variant: a failed owner notification is tried once more.
AfterOwnerFail_Retry(c, err) ==
    IF c.failed = "none"
    THEN [c EXCEPT !.failed = "sendOwner", !.logged = err,
                   !.trace = @ \o <<"sendMail">>]
    ELSE [c EXCEPT !.pc = "done", !.logged = err,
                   !.res = @ \o <<Response(500, FailedBody)>>]

\* Faulty variant: the exception's content is put in the response.
AfterOwnerFail_Leak(c, err) ==
    [c EXCEPT !.pc = "done", !.failed = "sendOwner", !.logged = err,
              !.res = @ \o <<Response(500, [FailedBody EXCEPT !.message = err])>>]

\* Faulty variant: a failed acknowledgement is answered as a partial success.
AfterAckFail_Partial(c, err) ==
    [c EXCEPT !.pc = "done", !.failed = "sendAck", !.logged = err,
              !.res = @ \o <<Response(500, [FailedBody EXCEPT !.message =
                  "Your message was delivered, but the confirmation email failed."])>>]

\* Faulty variant: a failed acknowledgement is swallowed without an answer.
AfterAckFail_Silent(c, err) ==
    [c EXCEPT !.pc = "done", !.failed = "sendAck", !.logged = err]

\* The continuations of the handler after each await.
AfterVerifyOk(c) ==
    [c EXCEPT !.pc = "sendOwner", !.trace = @ \o <<"sendMail">>]
AfterVerifyFail(c, err) ==
    [c EXCEPT !.pc = "done", !.failed = "verify", !.logged = err,
              !.res = @ \o <<Response(500, UnavailableBody)>>]
AfterOwnerOk(c) ==
    [c EXCEPT !.pc = "sendAck", !.sent = @ \o <<ownerMailOptions(c.data)>>,
              !.trace = @ \o <<"sendMail">>]
AfterOwnerFail(c, err) ==
    [c EXCEPT !.pc = "done", !.failed = "sendOwner", !.logged = err,
              !.res = @ \o <<Response(500, FailedBody)>>]
AfterAckOk(c) ==
    [c EXCEPT !.pc = "done", !.sent = @ \o <<autoReplyOptions(c.data)>>,
              !.res = @ \o <<Response(200, SuccessBody)>>]
AfterAckFail(c, err) ==
    [c EXCEPT !.pc = "done", !.failed = "sendAck", !.logged = err,
              !.res = @ \o <<Response(500, FailedBody)>>]

(***************************************************************************)
(* History: every request of an address that reached the limiter, with its *)
(* arrival time and whether it was let through.  WinStart reads the fixed  *)
(* windows off the arrival times alone: the first request opens a window,  *)
(* and so does every request arriving windowMs or more after the start of  *)
(* the window before it.                                                   *)
(***************************************************************************)
RECURSIVE WinStart(_, _)
WinStart(log, k) ==
    IF k = 1 THEN log[1].t
    ELSE LET w == WinStart(log, k - 1) IN
         IF log[k].t >= w + windowMs THEN log[k].t ELSE w

\* Requests of the log let through in the window that time t falls in.
PriorAdmitted(log, t) ==
    IF log = <<>> THEN 0
    ELSE LET w == WinStart(log, Len(log)) IN
         IF t >= w + windowMs THEN 0
         ELSE Cardinality({j \in 1..Len(log) : log[j].ok /\ WinStart(log, j) = w})

RECURSIVE SumLen(_, _)
SumLen(f, S) ==
    IF S = {} THEN 0
    ELSE LET x == CHOOSE y \in S : TRUE IN Len(f[x]) + SumLen(f, S \ {x})

TotalRequests == SumLen(reqLog, Clients)

(***************************************************************************)
(* Actions.                                                                *)
(***************************************************************************)
\* The ContactForm component as mounted.
FormInit ==
    [t |-> 0, isSubmitting |-> FALSE, submitStatus |-> "idle",
     fields |-> "blank", inFlight |-> 0, started |-> 0, timers |-> {},
     lastOutcome |-> -1, setAt |-> 0, setBy |-> 0, clearedBy |-> 0]

\* A value of the parameter limit, in milliseconds.
BaseLimit == 100

\* The state of the closure that throttle(func, limit) returns.
ThrInit(limit) ==
    [t |-> 0, limit |-> limit, inThrottle |-> FALSE, timer |-> -1,
     runs |-> <<>>, calls |-> 0,
     last |-> [t |-> -1, ran |-> FALSE, throttled |-> FALSE]]

\* process.env, read by POST /contact: the credentials and the owner address.
\* NODE_ENV and SMTP_HOST matter to the test route alone and are held at a
\* production setting here; InitTest below varies them.
Init ==
    /\ env \in [SMTP_USER : {"", "user"}, SMTP_PASS : {"", "pass"},
                CONTACT_EMAIL : {<<>>, Addr(5, 7, 3)},
                NODE_ENV : {"production"}, SMTP_HOST : {""}]
    /\ now = 0
    /\ store = [ip \in Clients |-> NoClient]
    /\ conn = [k \in Conns |-> IdleConn]
    /\ reqLog = [ip \in Clients |-> <<>>]
    /\ form = FormInit
    /\ thr = ThrInit(BaseLimit)

\* The request before on this connection was the same submission of the
\* same address, and it ended with the owner notified and the
\* acknowledgement failing.
Resubmits(c, ip, body) ==
    c.pc = "done" /\ c.ip = ip /\ c.body = body /\ c.failed = "sendAck"

\* Faulty variant: a request answered with a failure gives its unit back
\* (the limiter's skipFailedRequests).
Post_SkipFailed(k, ip, body) ==
    /\ conn[k].pc \in {"idle", "done"}
    /\ LET st == Increment(store, ip, now)
           admitted == LimiterAdmits(st, ip)
           c == [IdleConn EXCEPT !.route = "contact", !.ip = ip,
                                 !.body = body,
                                 !.prior = PriorAdmitted(reqLog[ip], now),
                                 !.retry = Resubmits(conn[k], ip, body)]
           h == HandlerStart(c, body)
       IN  /\ store' = IF admitted /\ h.res # <<>> THEN store ELSE st
           /\ conn' = [conn EXCEPT ![k] =
                  IF admitted THEN h
                  ELSE [c EXCEPT !.pc = "done",
                                 !.res = <<Response(429, RateLimitBody)>>]]
           /\ reqLog' = [reqLog EXCEPT ![ip] =
                  Append(@, [t |-> now, ok |-> admitted])]
    /\ UNCHANGED <<env, now, form, thr>>

\* A POST /contact from address ip arrives on connection k: the limiter
\* counts it and either answers 429 or hands it to the handler, which runs
\* to its first await.
Post(k, ip, body) ==
    /\ conn[k].pc \in {"idle", "done"}
    /\ LET st == Increment(store, ip, now)
           admitted == LimiterAdmits(st, ip)
           c == [IdleConn EXCEPT !.route = "contact", !.ip = ip,
                                 !.body = body,
                                 !.prior = PriorAdmitted(reqLog[ip], now),
                                 !.retry = Resubmits(conn[k], ip, body)]
       IN  /\ store' = st
           /\ conn' = [conn EXCEPT ![k] =
                  IF admitted THEN HandlerStart(c, body)
                  ELSE [c EXCEPT !.pc = "done",
                                 !.res = <<Response(429, RateLimitBody)>>]]
           /\ reqLog' = [reqLog EXCEPT ![ip] =
                  Append(@, [t |-> now, ok |-> admitted])]
    /\ UNCHANGED <<env, now, form, thr>>

VerifyOk(k) ==
    /\ conn[k].pc = "verify"
    /\ conn' = [conn EXCEPT ![k] = AfterVerifyOk(@)]
    /\ UNCHANGED <<env, now, store, reqLog, form, thr>>

VerifyFail(k) ==
    /\ conn[k].pc = "verify"
    /\ \E err \in Errors : conn' = [conn EXCEPT ![k] = AfterVerifyFail(@, err)]
    /\ UNCHANGED <<env, now, store, reqLog, form, thr>>

SendOwnerOk(k) ==
    /\ conn[k].pc = "sendOwner"
    /\ conn' = [conn EXCEPT ![k] = AfterOwnerOk(@)]
    /\ UNCHANGED <<env, now, store, reqLog, form, thr>>

SendOwnerFail(k) ==
    /\ conn[k].pc = "sendOwner"
    /\ \E err \in Errors : conn' = [conn EXCEPT ![k] = AfterOwnerFail(@, err)]
    /\ UNCHANGED <<env, now, store, reqLog, form, thr>>

SendAckOk(k) ==
    /\ conn[k].pc = "sendAck"
    /\ conn' = [conn EXCEPT ![k] = AfterAckOk(@)]
    /\ UNCHANGED <<env, now, store, reqLog, form, thr>>

SendAckFail(k) ==
    /\ conn[k].pc = "sendAck"
    /\ \E err \in Errors : conn' = [conn EXCEPT ![k] = AfterAckFail(@, err)]
    /\ UNCHANGED <<env, now, store, reqLog, form, thr>>

\* The diagnostic route exists only when the module was loaded with
\* NODE_ENV === 'development'.
TestRouteRegistered == env.NODE_ENV = "development"

TestBody ==
    [status |-> "Email route is working",
     smtp |-> [configured |-> (env.SMTP_USER # "" /\ env.SMTP_PASS # ""),
               host |-> IF env.SMTP_HOST # "" THEN env.SMTP_HOST
                        ELSE "not set"]]

\* Faulty variant: the test route sits behind the limiter.
GetTest_Limited(k, ip) ==
    /\ TestRouteRegistered
    /\ conn[k].pc \in {"idle", "done"}
    /\ store' = Increment(store, ip, now)
    /\ conn' = [conn EXCEPT ![k] =
           [IdleConn EXCEPT !.pc = "done", !.route = "test", !.ip = ip,
                            !.res = <<Response(200, TestBody)>>]]
    /\ UNCHANGED <<env, now, reqLog, form, thr>>

\* GET /test from address ip on connection k: answered at once, no limiter
\* in front of it.
GetTest(k, ip) ==
    /\ TestRouteRegistered
    /\ conn[k].pc \in {"idle", "done"}
    /\ conn' = [conn EXCEPT ![k] =
           [IdleConn EXCEPT !.pc = "done", !.route = "test", !.ip = ip,
                            !.res = <<Response(200, TestBody)>>]]
    /\ UNCHANGED <<env, now, store, reqLog, form, thr>>

\* Time passes.
Tick ==
    /\ now < MaxTicks * TickMs
    /\ now' = now + TickMs
    /\ UNCHANGED <<env, store, conn, reqLog, form, thr>>

Transport(k) ==
    \/ VerifyOk(k)
    \/ VerifyFail(k)
    \/ SendOwnerOk(k)
    \/ SendOwnerFail(k)
    \/ SendAckOk(k)
    \/ SendAckFail(k)

\* Connections and addresses are interchangeable: a request takes the
\* lowest free connection, and an address sends only once the addresses
\* below it have.
FreeConn(k) ==
    /\ conn[k].pc \in {"idle", "done"}
    /\ \A j \in Conns : j < k => conn[j].pc \notin {"idle", "done"}
KnownClient(ip) == \A j \in Clients : j < ip => reqLog[j] # <<>>

\* Concurrent requests, all arriving at one instant.
Next ==
    \/ \E k \in Conns, ip \in Clients, body \in FewBodies :
          /\ TotalRequests < MaxRequests
          /\ FreeConn(k)
          /\ KnownClient(ip)
          /\ Post(k, ip, body)
    \/ \E k \in Conns : Transport(k)

Spec == Init /\ [][Next]_vars

\* Requests one after the other as time passes.
NextTimed ==
    \/ \E ip \in Clients, body \in FewBodies :
          /\ TotalRequests < MaxTimedRequests
          /\ KnownClient(ip)
          /\ Post(1, ip, body)
    \/ Transport(1)
    \/ Tick

SpecTimed == Init /\ [][NextTimed]_vars

\* One request of one address, with every body of AllBodies.
NextAll ==
    \/ \E body \in AllBodies : conn[1].pc = "idle" /\ Post(1, 1, body)
    \/ Transport(1)

SpecAll == Init /\ [][NextAll]_vars

\* Concurrent requests of several addresses, enough of them for the limiter
\* to reject; credentials configured.
InitKeys ==
    /\ env = [SMTP_USER |-> "user", SMTP_PASS |-> "pass",
              CONTACT_EMAIL |-> <<>>, NODE_ENV |-> "production",
              SMTP_HOST |-> ""]
    /\ now = 0
    /\ store = [ip \in Clients |-> NoClient]
    /\ conn = [k \in Conns |-> IdleConn]
    /\ reqLog = [ip \in Clients |-> <<>>]
    /\ form = FormInit
    /\ thr = ThrInit(BaseLimit)

NextKeys ==
    \/ \E k \in Conns, ip \in Clients, body \in FewBodies :
          /\ TotalRequests < MaxKeyRequests
          /\ FreeConn(k)
          /\ KnownClient(ip)
          /\ Post(k, ip, body)
    \/ \E k \in Conns : Transport(k)

SpecKeys == InitKeys /\ [][NextKeys]_vars

\* Every setting of NODE_ENV (unset, development, production), with POST
\* /contact and GET /test requests interleaved.
InitTest ==
    /\ env \in [SMTP_USER : {"", "user"}, SMTP_PASS : {"", "pass"},
                CONTACT_EMAIL : {<<>>},
                NODE_ENV : {"", "development", "production"},
                SMTP_HOST : {"", "smtp.example.com"}]
    /\ now = 0
    /\ store = [ip \in Clients |-> NoClient]
    /\ conn = [k \in Conns |-> IdleConn]
    /\ reqLog = [ip \in Clients |-> <<>>]
    /\ form = FormInit
    /\ thr = ThrInit(BaseLimit)

NextTest ==
    \/ \E k \in Conns, ip \in Clients :
          /\ TotalRequests < MaxTestRequests
          /\ FreeConn(k)
          /\ KnownClient(ip)
          /\ Post(k, ip, JoBody)
    \/ \E k \in Conns : Transport(k)
    \/ \E k \in Conns, ip \in Clients : FreeConn(k) /\ GetTest(k, ip)

SpecTest == InitTest /\ [][NextTest]_vars

(***************************************************************************)
(* The ContactForm component.  Its clock form.t is in milliseconds; a      *)
(* timer is a record of its due time and of the submission that set it,    *)
(* and fires at its due time or later.                                     *)
(***************************************************************************)
StatusClearMs == 5000
FormTickMs == StatusClearMs \div 5

\* What a submission can meet: a response status of the endpoint, or a
\* network error (fetch rejects).
NetworkError == 0
Outcomes == {200, 400, 429, 500, NetworkError}

\* Faulty variant: every answer below 500 passes for OK.
ResponseOk_Lenient(status) == status >= 200 /\ status <= 499

\* response.ok
ResponseOk(status) == status >= 200 /\ status <= 299

\* The user fills in the three fields with values that pass the form's rules.
FormType ==
    /\ form.fields = "blank"
    /\ form' = [form EXCEPT !.fields = "entered"]
    /\ UNCHANGED <<env, now, store, conn, reqLog, thr>>

\* The submit button is pressed: handleSubmit calls onSubmitForm when the
\* fields pass; the button is disabled while isSubmitting.
FormSubmit ==
    /\ ~form.isSubmitting
    /\ form.fields = "entered"
    /\ form.started < MaxSubmissions
    /\ form' = [form EXCEPT !.isSubmitting = TRUE, !.submitStatus = "idle",
                            !.inFlight = @ + 1, !.started = @ + 1]
    /\ UNCHANGED <<env, now, store, conn, reqLog, thr>>

\* Faulty variant: no finally; a failed submission leaves isSubmitting set.
FormSettle_NoFinally(outcome) ==
    /\ form.inFlight > 0
    /\ form' = [form EXCEPT
           !.isSubmitting = ~ResponseOk(outcome),
           !.inFlight = @ - 1,
           !.lastOutcome = outcome,
           !.submitStatus = IF ResponseOk(outcome) THEN "success" ELSE "error",
           !.fields = IF ResponseOk(outcome) THEN "blank" ELSE @,
           !.setAt = form.t, !.setBy = form.started,
           !.timers = @ \cup {[due |-> form.t + StatusClearMs,
                               by |-> form.started]}]
    /\ UNCHANGED <<env, now, store, conn, reqLog, thr>>

\* The awaited submission settles: onSubmit or fetch resolved with an OK
\* response (success, reset), or the response was not OK or fetch rejected
\* (catch); either way a timer is set and the finally clears isSubmitting.
FormSettle(outcome) ==
    /\ form.inFlight > 0
    /\ form' = [form EXCEPT
           !.isSubmitting = FALSE,
           !.inFlight = @ - 1,
           !.lastOutcome = outcome,
           !.submitStatus = IF ResponseOk(outcome) THEN "success" ELSE "error",
           !.fields = IF ResponseOk(outcome) THEN "blank" ELSE @,
           !.setAt = form.t, !.setBy = form.started,
           !.timers = @ \cup {[due |-> form.t + StatusClearMs,
                               by |-> form.started]}]
    /\ UNCHANGED <<env, now, store, conn, reqLog, thr>>

\* A timer fires: setSubmitStatus('idle').
FormTimer ==
    /\ \E tm \in form.timers :
          /\ tm.due <= form.t
          /\ form' = [form EXCEPT !.submitStatus = "idle",
                                  !.timers = @ \ {tm},
                                  !.clearedBy = tm.by]
    /\ UNCHANGED <<env, now, store, conn, reqLog, thr>>

FormTick ==
    /\ form.t < MaxFormTicks * FormTickMs
    /\ form' = [form EXCEPT !.t = @ + FormTickMs]
    /\ UNCHANGED <<env, now, store, conn, reqLog, thr>>

NextForm ==
    \/ FormType
    \/ FormSubmit
    \/ \E outcome \in Outcomes : FormSettle(outcome)
    \/ FormTimer
    \/ FormTick

InitForm ==
    /\ env = [SMTP_USER |-> "user", SMTP_PASS |-> "pass",
              CONTACT_EMAIL |-> <<>>, NODE_ENV |-> "production",
              SMTP_HOST |-> ""]
    /\ now = 0
    /\ store = [ip \in Clients |-> NoClient]
    /\ conn = [k \in Conns |-> IdleConn]
    /\ reqLog = [ip \in Clients |-> <<>>]
    /\ form = FormInit
    /\ thr = ThrInit(BaseLimit)

SpecForm == InitForm /\ [][NextForm]_vars

(***************************************************************************)
(* throttle(func, limit): the returned function and its timer.  thr.runs   *)
(* are the times func ran at; thr.last is the latest call.                 *)
(***************************************************************************)
ThrTickMs == BaseLimit \div 2
Limits == {BaseLimit, BaseLimit + ThrTickMs}

\* Faulty variant: a call made while throttled runs all the same.
ThrCall_NoDrop ==
    /\ thr.calls < MaxCalls
    /\ thr' = [thr EXCEPT !.runs = Append(@, thr.t),
                          !.inThrottle = TRUE,
                          !.timer = thr.t + thr.limit,
                          !.calls = @ + 1,
                          !.last = [t |-> thr.t, ran |-> TRUE,
                                    throttled |-> thr.inThrottle]]
    /\ UNCHANGED <<env, now, store, conn, reqLog, form>>

\* A call of the returned function.
ThrCall ==
    /\ thr.calls < MaxCalls
    /\ thr' = IF ~thr.inThrottle
              THEN [thr EXCEPT !.runs = Append(@, thr.t),
                               !.inThrottle = TRUE,
                               !.timer = thr.t + thr.limit,
                               !.calls = @ + 1,
                               !.last = [t |-> thr.t, ran |-> TRUE,
                                         throttled |-> FALSE]]
              ELSE [thr EXCEPT !.calls = @ + 1,
                               !.last = [t |-> thr.t, ran |-> FALSE,
                                         throttled |-> TRUE]]
    /\ UNCHANGED <<env, now, store, conn, reqLog, form>>

\* The timer's callback, limit ms after the run or later.
ThrTimer ==
    /\ thr.timer >= 0
    /\ thr.timer <= thr.t
    /\ thr' = [thr EXCEPT !.inThrottle = FALSE, !.timer = -1]
    /\ UNCHANGED <<env, now, store, conn, reqLog, form>>

ThrTick ==
    /\ thr.t < MaxThrTicks * ThrTickMs
    /\ thr' = [thr EXCEPT !.t = @ + ThrTickMs]
    /\ UNCHANGED <<env, now, store, conn, reqLog, form>>

InitThrottle ==
    /\ env = [SMTP_USER |-> "user", SMTP_PASS |-> "pass",
              CONTACT_EMAIL |-> <<>>, NODE_ENV |-> "production",
              SMTP_HOST |-> ""]
    /\ now = 0
    /\ store = [ip \in Clients |-> NoClient]
    /\ conn = [k \in Conns |-> IdleConn]
    /\ reqLog = [ip \in Clients |-> <<>>]
    /\ form = FormInit
    /\ \E limit \in Limits : thr = ThrInit(limit)

NextThrottle ==
    \/ ThrCall
    \/ ThrTimer
    \/ ThrTick

SpecThrottle == InitThrottle /\ [][NextThrottle]_vars

(***************************************************************************)
(* Vocabulary of the properties.                                           *)
(***************************************************************************)
Range(s) == {s[i] : i \in 1..Len(s)}
Count(s, x) == Cardinality({i \in 1..Len(s) : s[i] = x})
TransportOps == {"createTransporter", "verify", "sendMail"}
TransportCalls(c) == SelectSeq(c.trace, LAMBDA op : op \in TransportOps)

\* The request on connection k got past the limiter.
Admitted(k) ==
    /\ conn[k].route = "contact"
    /\ ~(conn[k].res # <<>> /\ conn[k].res[1].status = 429)

\* The handler of the request on connection k sanitized and validated.
Validated(k) == Admitted(k) /\ conn[k].body.parsed

TrimmedLen(s) == StrLen(Trim(s))

\* The three rules as the specification words them.
SatisfiesRules(data) ==
    /\ TrimmedLen(data.name) >= 2 /\ TrimmedLen(data.name) <= 100
    /\ validate(data.email)
    /\ TrimmedLen(data.message) >= 10 /\ TrimmedLen(data.message) <= 5000

\* C1: an admitted request whose sanitized fields fail validation invokes no
\* transport operation (createTransporter, verify, sendMail), hands over no
\* message, and is answered at once (400, once).
C1_NoTransportOnInvalid ==
    \A k \in Conns :
        (Validated(k) /\ conn[k].errors # <<>>) =>
            /\ TransportCalls(conn[k]) = <<>>
            /\ conn[k].sent = <<>>
            /\ conn[k].pc = "done"
            /\ conn[k].res = <<Response(400, ValidationBody(conn[k].errors))>>

C1_Witness ==
    \E k \in Conns :
        /\ Validated(k)
        /\ conn[k].errors # <<>>
        /\ conn[k].pc = "done"
        /\ conn[k].trace = <<"sanitize", "validate">>

\* C2: when a request has finished, the number of messages it handed to the
\* transport with success is 0 or 2, never exactly 1.
C2_NoPartialSend ==
    \A k \in Conns : conn[k].pc = "done" => Len(conn[k].sent) \in {0, 2}

\* C3: valid input, credentials present and no transport call failing: the
\* finished request called sendMail exactly twice and sent the 200 success
\* response exactly once; no request ever calls sendMail more than twice.
C3_TwoSendsOneSuccess ==
    \A k \in Conns :
        /\ Count(conn[k].trace, "sendMail") <= 2
        /\ ( /\ Validated(k)
             /\ conn[k].pc = "done"
             /\ conn[k].errors = <<>>
             /\ env.SMTP_USER # "" /\ env.SMTP_PASS # ""
             /\ conn[k].failed = "none" )
           => /\ Count(conn[k].trace, "sendMail") = 2
              /\ Len(conn[k].sent) = 2
              /\ conn[k].res = <<Response(200, SuccessBody)>>

C3_Witness ==
    \E k \in Conns :
        /\ conn[k].pc = "done"
        /\ Validated(k)
        /\ conn[k].failed = "none"
        /\ conn[k].errors = <<>>
        /\ Len(conn[k].sent) = 2
        /\ conn[k].res # <<>> /\ conn[k].res[1].status = 200

\* C4: valid input with SMTP_USER or SMTP_PASS missing: no message is sent,
\* no transporter is created, verify is not called, and the answer is 500
\* with the configuration-error body.
C4_MissingCredentials ==
    \A k \in Conns :
        ( /\ Validated(k)
          /\ conn[k].errors = <<>>
          /\ (env.SMTP_USER = "" \/ env.SMTP_PASS = "") )
        => /\ conn[k].pc = "done"
           /\ conn[k].sent = <<>>
           /\ TransportCalls(conn[k]) = <<>>
           /\ conn[k].res = <<Response(500, ConfigErrorBody)>>

C4_Witness ==
    \E k \in Conns :
        /\ Validated(k)
        /\ conn[k].errors = <<>>
        /\ env.SMTP_USER # "" /\ env.SMTP_PASS = ""
        /\ conn[k].res = <<Response(500, ConfigErrorBody)>>

\* C5: when transporter.verify() fails the handler stops: 500 with the
\* temporarily-unavailable body, and sendMail is never called.
C5_VerifyFailureStops ==
    \A k \in Conns :
        conn[k].failed = "verify" =>
            /\ conn[k].pc = "done"
            /\ conn[k].res = <<Response(500, UnavailableBody)>>
            /\ Count(conn[k].trace, "sendMail") = 0
            /\ conn[k].sent = <<>>

C5_Witness ==
    \E k \in Conns :
        /\ conn[k].failed = "verify"
        /\ conn[k].trace = <<"sanitize", "validate", "checkCredentials",
                            "createTransporter", "verify">>

AdmittedTrailing(ip) ==
    {j \in 1..Len(reqLog[ip]) :
        reqLog[ip][j].ok /\ reqLog[ip][j].t > now - 15 * 60 * 1000}

\* Requests of address ip let through in the window of its j-th request.
AdmittedInWindowOf(ip, j) ==
    {i \in 1..Len(reqLog[ip]) :
        reqLog[ip][i].ok /\ WinStart(reqLog[ip], i) = WinStart(reqLog[ip], j)}

\* C7 as claimed: in every trailing interval of 15 minutes at most 3
\* requests of one address are let through.  (An interval holding more
\* than 3 holds them when its last one is let through, so the intervals
\* ending now are all of them.)
C7_SlidingWindow ==
    \A ip \in Clients : Cardinality(AdmittedTrailing(ip)) <= 3

\* C7 amended: in each fixed window of an address (the 15 minutes from its
\* first request, or from its first request after the window before
\* expired) at most 3 of its requests are let through.
C7_FixedWindow ==
    \A ip \in Clients : \A j \in 1..Len(reqLog[ip]) :
        Cardinality(AdmittedInWindowOf(ip, j)) <= 3

C7_Witness ==
    \E ip \in Clients :
        /\ Cardinality(AdmittedTrailing(ip)) > 3
        /\ \E j \in 1..Len(reqLog[ip]) : Cardinality(AdmittedInWindowOf(ip, j)) = 3

\* C8: an address that was rejected and then sent nothing for a full 15
\* minutes is let through on its next request, which counts as the first of
\* a new window.
C8_RecoversAfterWindow ==
    \A ip \in Clients : \A j \in 2..Len(reqLog[ip]) :
        ( /\ ~reqLog[ip][j - 1].ok
          /\ reqLog[ip][j].t - reqLog[ip][j - 1].t >= 15 * 60 * 1000 )
        => /\ reqLog[ip][j].ok
           /\ (j = Len(reqLog[ip]) => store[ip].totalHits = 1)

C8_Witness ==
    \E ip \in Clients : \E j \in 2..Len(reqLog[ip]) :
        /\ ~reqLog[ip][j - 1].ok
        /\ reqLog[ip][j].t - reqLog[ip][j - 1].t >= 15 * 60 * 1000
        /\ reqLog[ip][j].ok

\* C9: validateEmailData returns the empty list for every input whose name
\* has trimmed length 2..100, whose email is well formed and whose message
\* has trimmed length 10..5000.
C9_ValidInputNoErrors ==
    \A k \in Conns :
        (Validated(k) /\ SatisfiesRules(conn[k].data)) => conn[k].errors = <<>>

\* C10: a name of trimmed length < 2 or > 100 puts a name-length violation
\* in the list (which is then not empty); the email violation is in the
\* list exactly when the email fails the syntactic check.
C10_NameAndEmailViolations ==
    \A k \in Conns :
        Validated(k) =>
            /\ (TrimmedLen(conn[k].data.name) < 2 \/ TrimmedLen(conn[k].data.name) > 100)
               => /\ Range(conn[k].errors) \cap {NameMin, NameMax} # {}
                  /\ conn[k].errors # <<>>
            /\ ~validate(conn[k].data.email) <=> EmailInvalid \in Range(conn[k].errors)

C10_Witness ==
    \E k \in Conns :
        /\ Validated(k)
        /\ TrimmedLen(conn[k].data.name) > 100
        /\ ~validate(conn[k].data.email)
        /\ NameMax \in Range(conn[k].errors)
        /\ EmailInvalid \in Range(conn[k].errors)

Fields == {"name", "email", "message"}
HasStatus(c, s) == \E i \in 1..Len(c.res) : c.res[i].status = s

\* s is t with some entries left out (the order kept).
RECURSIVE IsSubSeq(_, _)
IsSubSeq(s, t) ==
    IF s = <<>> THEN TRUE
    ELSE IF t = <<>> THEN FALSE
    ELSE IF Head(s) = Head(t) THEN IsSubSeq(Tail(s), Tail(t))
    ELSE IsSubSeq(s, Tail(t))

\* C11: a request whose submitted message has trimmed length < 10 or > 5000
\* is answered 400 with a message-length error in errors, and no email is
\* sent.
C11_MessageLengthReported ==
    \A k \in Conns :
        ( /\ Validated(k)
          /\ conn[k].body.message.t = "string"
          /\ (TrimmedLen(conn[k].body.message.s) < 10
              \/ TrimmedLen(conn[k].body.message.s) > 5000) )
        => /\ conn[k].res # <<>>
           /\ conn[k].res[1].status = 400
           /\ Range(conn[k].res[1].body.errors) \cap {MessageMin, MessageMax} # {}
           /\ conn[k].sent = <<>>
           /\ TransportCalls(conn[k]) = <<>>

\* C12: validateEmailData does not short-circuit: every violated rule has
\* its entry, whatever the other fields are, and the entries come in the
\* fixed order name, email, message; three empty fields give exactly the
\* three messages name-min, email, message-min.
C12_AllViolationsInOrder ==
    \A k \in Conns :
        Validated(k) =>
            LET d == conn[k].data
                e == conn[k].errors
            IN  /\ IsSubSeq(e, <<NameMin, NameMax, EmailInvalid, MessageMin, MessageMax>>)
                /\ TrimmedLen(d.name) < 2 <=> NameMin \in Range(e)
                /\ TrimmedLen(d.name) > 100 => NameMax \in Range(e)
                /\ ~validate(d.email) <=> EmailInvalid \in Range(e)
                /\ TrimmedLen(d.message) < 10 <=> MessageMin \in Range(e)
                /\ TrimmedLen(d.message) > 5000 => MessageMax \in Range(e)
                /\ d = NoData => e = <<NameMin, EmailInvalid, MessageMin>>

C12_Witness ==
    \E k \in Conns :
        /\ Validated(k)
        /\ conn[k].data = NoData
        /\ conn[k].errors = <<NameMin, EmailInvalid, MessageMin>>

\* C13: sanitizing a sanitized field again changes nothing.
C13_SanitizeIdempotent ==
    \A k \in Conns :
        Validated(k) =>
            \A f \in Fields :
                sanitizeInput(StringValue(conn[k].data[f])) = conn[k].data[f]

\* C14: sanitizeInput gives the empty string for a non-string; for a string
\* the result is no longer than the input, at most 1000 characters long, and
\* holds no angle bracket.
C14_SanitizeShape ==
    \A k \in Conns :
        Validated(k) =>
            \A f \in Fields :
                LET in == conn[k].body[f]
                    out == conn[k].data[f]
                IN  /\ in.t # "string" => out = <<>>
                    /\ in.t = "string" => StrLen(out) <= StrLen(in.s)
                    /\ StrLen(out) <= 1000
                    /\ \A i \in 1..Len(out) : out[i].c # "b"

C14_Witness ==
    \E k \in Conns :
        /\ Validated(k)
        /\ StrLen(conn[k].body.name.s) > 1000
        /\ StrLen(conn[k].data.name) = 1000
        /\ \E i \in 1..Len(conn[k].body.email.s) : conn[k].body.email.s[i].c = "b"
        /\ conn[k].body.message.t # "string"

\* The steps of a request that succeeds, in the order of the handler.
PipelineSteps ==
    <<"sanitize", "validate", "checkCredentials", "createTransporter",
      "verify", "sendMail", "sendMail">>
IsPrefix(s, t) == Len(s) <= Len(t) /\ s = SubSeq(t, 1, Len(s))
Last(s) == s[Len(s)]

\* C15: every admitted request gets exactly one response on every path: never
\* two; none only while a transport call (verify or a sendMail) is still
\* outstanding, so one as soon as that call returns or throws; and the status
\* is 200, 400 or 500.
C15_ExactlyOneResponse ==
    \A k \in Conns :
        Admitted(k) =>
            LET c == conn[k] IN
            /\ Len(c.res) <= 1
            /\ (c.pc = "done") <=> (Len(c.res) = 1)
            /\ c.pc # "done" => c.pc \in {"verify", "sendOwner", "sendAck"}
            /\ \A i \in 1..Len(c.res) : c.res[i].status \in {200, 400, 500}

C15_Witness ==
    \E k \in Conns :
        /\ Admitted(k)
        /\ conn[k].failed = "sendAck"
        /\ Len(conn[k].res) = 1
        /\ conn[k].res[1].status = 500

\* C16: a 200 response is sent only after both sendMail calls of the request
\* (owner notification, then acknowledgement) succeeded; a 400 response is
\* sent exactly when the validator's list is non-empty, and carries that list.
C16_SuccessAndValidationResponses ==
    \A k \in Conns :
        Admitted(k) =>
            LET c == conn[k] IN
            /\ HasStatus(c, 200) =>
                  /\ c.res = <<Response(200, SuccessBody)>>
                  /\ c.failed = "none"
                  /\ Count(c.trace, "sendMail") = 2
                  /\ c.sent = <<ownerMailOptions(c.data), autoReplyOptions(c.data)>>
            /\ HasStatus(c, 400) <=> (c.errors # <<>>)
            /\ \A i \in 1..Len(c.res) :
                  c.res[i].status = 400 =>
                      c.res[i].body = [success |-> FALSE, message |-> "",
                                       errors |-> c.errors]

C16_Witness ==
    \E k \in Conns :
        /\ HasStatus(conn[k], 200)
        /\ conn[k].sent = <<ownerMailOptions(conn[k].data),
                            autoReplyOptions(conn[k].data)>>

\* C17: when the owner notification succeeds and the acknowledgement fails,
\* the response is the generic 500 that a failed owner notification gets, so
\* it does not tell that the owner was notified; and a resubmission of the
\* same body by the same address is processed like any request, notifying
\* the owner a second time.
C17_AckFailureGeneric ==
    \A k \in Conns :
        LET c == conn[k] IN
        /\ c.failed = "sendAck" =>
              /\ c.sent = <<ownerMailOptions(c.data)>>
              /\ c.res = <<Response(500, FailedBody)>>
        /\ c.failed = "sendOwner" =>
              /\ c.sent = <<>>
              /\ c.res = <<Response(500, FailedBody)>>
        /\ (c.retry /\ Admitted(k)) =>
              /\ IsPrefix(SubSeq(PipelineSteps, 1, 5), c.trace)
              /\ (c.pc = "sendAck" \/ (c.failed \in {"none", "sendAck"} /\ c.pc = "done"))
                    => (c.sent # <<>> /\ c.sent[1] = ownerMailOptions(c.data))

C17_Witness ==
    \E k \in Conns :
        /\ conn[k].retry
        /\ conn[k].sent # <<>>
        /\ conn[k].sent[1] = ownerMailOptions(conn[k].data)

\* C18: the steps of a request occur in the order sanitize, validate,
\* credential check, verify, owner notification, acknowledgement, success
\* response, each after the one before succeeded; one send is outstanding at
\* a time, the acknowledgement only after the owner notification succeeded;
\* and an error response comes only after validation, the credential check,
\* verify or a send.
C18_StepOrder ==
    \A k \in Conns :
        Admitted(k) =>
            LET c == conn[k] IN
            /\ IsPrefix(c.trace, PipelineSteps)
            /\ c.pc = "verify" => Last(c.trace) = "verify" /\ c.sent = <<>>
            /\ c.pc = "sendOwner" =>
                  Count(c.trace, "sendMail") = 1 /\ c.sent = <<>>
            /\ c.pc = "sendAck" =>
                  Count(c.trace, "sendMail") = 2
                  /\ c.sent = <<ownerMailOptions(c.data)>>
            /\ Count(c.trace, "sendMail") = 2 => c.sent # <<>>
            /\ HasStatus(c, 200) => c.trace = PipelineSteps /\ Len(c.sent) = 2
            /\ HasStatus(c, 400) => Last(c.trace) = "validate"
            /\ HasStatus(c, 500) =>
                  /\ c.trace # <<>>
                  /\ Last(c.trace) \in {"checkCredentials", "verify", "sendMail"}

\* C19: within one request verify is called at most once and each of the two
\* sendMail calls at most once; once one of them failed, no further transport
\* call is made and the failure response is sent at once.
C19_NoRetries ==
    \A k \in Conns :
        LET c == conn[k]
            calls == TransportCalls(c)
        IN  /\ Count(c.trace, "verify") <= 1
            /\ Count(c.trace, "sendMail") <= 2
            /\ Count(c.trace, "sendMail") = 2 => c.sent # <<>>
            /\ c.failed \in {"verify", "sendOwner", "sendAck"} =>
                  /\ c.pc = "done"
                  /\ Len(c.res) = 1 /\ c.res[1].status = 500
            /\ c.failed = "verify" => calls = <<"createTransporter", "verify">>
            /\ c.failed = "sendOwner" =>
                  calls = <<"createTransporter", "verify", "sendMail">>
            /\ c.failed = "sendAck" =>
                  calls = <<"createTransporter", "verify", "sendMail", "sendMail">>

C19_Witness ==
    \E k \in Conns :
        /\ conn[k].failed = "sendOwner"
        /\ conn[k].pc = "done"
        /\ Count(conn[k].trace, "sendMail") = 1

\* C20: the body of a 500 response is one of three fixed messages, chosen by
\* the failing step alone (credentials missing, verify failed, anything
\* else); two requests with the same body that failed at the same step get
\* the same response whatever the exceptions carried.
C20_NoLeak ==
    /\ \A k \in Conns :
          LET c == conn[k] IN
          \A i \in 1..Len(c.res) :
              c.res[i].status = 500 =>
                  c.res[i].body =
                      IF c.failed = "verify" THEN UnavailableBody
                      ELSE IF c.failed = "none"
                                /\ (env.SMTP_USER = "" \/ env.SMTP_PASS = "")
                           THEN ConfigErrorBody
                      ELSE FailedBody
    /\ \A k1, k2 \in Conns :
          ( /\ Admitted(k1) /\ Admitted(k2)
            /\ conn[k1].pc = "done" /\ conn[k2].pc = "done"
            /\ conn[k1].body = conn[k2].body
            /\ conn[k1].failed = conn[k2].failed )
          => conn[k1].res = conn[k2].res

C20_Witness ==
    \E k1, k2 \in Conns :
        /\ conn[k1].failed = "sendOwner" /\ conn[k2].failed = "sendOwner"
        /\ conn[k1].body = conn[k2].body
        /\ conn[k1].logged # conn[k2].logged
        /\ conn[k1].res = conn[k2].res
        /\ conn[k1].res # <<>>

\* The owner address as the environment configures it.
ConfiguredOwner ==
    IF env.CONTACT_EMAIL # <<>> THEN env.CONTACT_EMAIL ELSE DefaultOwner

\* C21 (as stated): the first message handed over goes to the configured
\* owner address (the default when CONTACT_EMAIL is unset) with reply-to the
\* sanitized sender email, the second goes to the sanitized sender email; and
\* never is the sender's address the recipient of the first nor the owner's
\* address the recipient of the second.
C21_RecipientsNeverCoincide ==
    \A k \in Conns :
        LET c == conn[k] IN
        /\ Len(c.sent) >= 1 =>
              /\ c.sent[1].to = ConfiguredOwner
              /\ c.sent[1].replyTo = c.data.email
              /\ c.sent[1].to # c.data.email
        /\ Len(c.sent) >= 2 =>
              /\ c.sent[2].to = c.data.email
              /\ c.sent[2].to # ConfiguredOwner

\* C21 (amended): the first message goes to the configured owner address with
\* reply-to the sanitized sender email and the second to the sanitized sender
\* email; the two recipients differ whenever the sender did not submit the
\* owner's own address.
C21_Recipients ==
    \A k \in Conns :
        LET c == conn[k] IN
        /\ Len(c.sent) >= 1 =>
              /\ c.sent[1].to = ConfiguredOwner
              /\ c.sent[1].replyTo = c.data.email
              /\ c.data.email # ConfiguredOwner => c.sent[1].to # c.data.email
        /\ Len(c.sent) >= 2 =>
              /\ c.sent[2].to = c.data.email
              /\ c.data.email # ConfiguredOwner => c.sent[2].to # ConfiguredOwner

C21_Witness ==
    \E k \in Conns :
        /\ HasStatus(conn[k], 200)
        /\ Len(conn[k].sent) = 2
        /\ conn[k].sent[1].to = Addr(5, 7, 3)
        /\ conn[k].sent[2].to = Addr(2, 7, 3)

\* C22: the test route is never registered (so never served) when NODE_ENV
\* is 'production'; and serving it sends no email, calls no transport
\* operation, and leaves every client's rate-limit counter, and every other
\* request, as they were.
C22_TestRouteNoSideEffects ==
    /\ [](\A k \in Conns :
             conn[k].route = "test" => env.NODE_ENV # "production")
    /\ [][\A k \in Conns :
             (conn'[k].route = "test" /\ conn'[k] # conn[k]) =>
                 /\ store' = store
                 /\ reqLog' = reqLog
                 /\ conn'[k].sent = <<>>
                 /\ conn'[k].trace = <<>>
                 /\ \A j \in Conns \ {k} : conn'[j] = conn[j]]_vars

C22_Witness ==
    \E k, j \in Conns :
        /\ conn[k].route = "test"
        /\ conn[k].res = <<Response(200, TestBody)>>
        /\ conn[j].route = "contact"
        /\ conn[j].pc = "sendAck"
        /\ store[conn[k].ip].totalHits = 1

\* The fields of the request on connection k that are missing or malformed:
\* not a string, or, once sanitized, against the rule of the field.
OffendingFields(k) ==
    LET b == conn[k].body
        d == [f \in Fields |-> sanitizeInput(b[f])]
    IN  {f \in Fields : b[f].t # "string"}
        \cup (IF TrimmedLen(d.name) < 2 \/ StrLen(d.name) > 100
              THEN {"name"} ELSE {})
        \cup (IF ~validate(d.email) THEN {"email"} ELSE {})
        \cup (IF TrimmedLen(d.message) < 10 THEN {"message"} ELSE {})

ErrorsOf(f) ==
    IF f = "name" THEN {NameMin, NameMax}
    ELSE IF f = "email" THEN {EmailInvalid}
    ELSE {MessageMin, MessageMax}

\* C23: whatever the body of an admitted POST /contact (a field missing, a
\* field that is not a string, no parsed body at all), if a field is missing
\* or malformed the response is 400 with an error for each offending field,
\* and no email is sent.
C23_InputErrorsAnswered400 ==
    \A k \in Conns :
        (Admitted(k) /\ OffendingFields(k) # {}) =>
            /\ conn[k].res # <<>>
            /\ conn[k].res[1].status = 400
            /\ \A f \in OffendingFields(k) :
                  Range(conn[k].res[1].body.errors) \cap ErrorsOf(f) # {}
            /\ conn[k].sent = <<>>

\* The request on connection k was rejected by the limiter.
Rejected(k) ==
    conn[k].route = "contact" /\ conn[k].res = <<Response(429, RateLimitBody)>>

\* Requests of address ip in the window of its j-th request, before it.
EarlierInWindow(ip, j) ==
    {i \in 1..(j - 1) : WinStart(reqLog[ip], i) = WinStart(reqLog[ip], j)}

\* C24: counters are per address: the counter of an address counts the
\* requests of that address and no others, and a request is rejected only
\* when its own address already had 3 requests in the window, whatever the
\* other addresses sent and however the requests overlap.
C24_PerKeyCounters ==
    /\ \A ip \in Clients : store[ip].totalHits = Len(reqLog[ip])
    /\ \A ip \in Clients : \A j \in 1..Len(reqLog[ip]) :
          ~reqLog[ip][j].ok => j > 3
    /\ \A k \in Conns :
          Rejected(k) => /\ conn[k].prior >= 3
                         /\ Len(reqLog[conn[k].ip]) > 3

C24_Witness ==
    \E k, j \in Conns :
        /\ conn[k].ip = 2 /\ Admitted(k) /\ conn[k].prior = 0
        /\ conn[j].ip = 1 /\ conn[j].pc \in {"verify", "sendOwner", "sendAck"}
        /\ Len(reqLog[1]) = 3
        /\ Len(reqLog[2]) = 1

\* C25: every request reaching the limiter uses one unit of its address's
\* quota whatever its outcome: a request is let through exactly when fewer
\* than 3 requests of the address, of any outcome, came before it in the
\* window, so the fourth is rejected even when valid and the three before
\* it were answered 400 or 500.
C25_EveryRequestCounts ==
    /\ \A ip \in Clients : \A j \in 1..Len(reqLog[ip]) :
          reqLog[ip][j].ok <=> Cardinality(EarlierInWindow(ip, j)) < 3
    /\ \A ip \in Clients :
          reqLog[ip] # <<>> =>
              store[ip].totalHits =
                  Cardinality({i \in 1..Len(reqLog[ip]) :
                      WinStart(reqLog[ip], i)
                          = WinStart(reqLog[ip], Len(reqLog[ip]))})

\* The credentials are missing, so the three requests before were answered
\* 400 or 500; the fourth, valid, is rejected.
C25_Witness ==
    \E k \in Conns :
        /\ env.SMTP_USER = ""
        /\ Rejected(k)
        /\ conn[k].body = JoBody
        /\ now = 0
        /\ Len(reqLog[conn[k].ip]) = 4

\* C26: for an accepted submission (message of trimmed length 10 to 5000) the
\* message text of the owner notification is the submitted message without
\* its surrounding whitespace and its angle brackets, nothing else dropped.
C26_MessageMailedWhole ==
    \A k \in Conns :
        LET c == conn[k] IN
        ( /\ Admitted(k)
          /\ c.body.message.t = "string"
          /\ TrimmedLen(c.body.message.s) >= 10
          /\ TrimmedLen(c.body.message.s) <= 5000
          /\ c.sent # <<>> )
        => c.sent[1].message = RemoveAngle(Trim(c.body.message.s))

\* C27: a status set by a completed submission goes back to 'idle' only when
\* a new submission starts, or through the timer of that same submission, 5
\* seconds or more after the completion; never through the timer of an
\* earlier submission.
C27_StatusClearedOnTime ==
    [][(form.submitStatus # "idle" /\ form'.submitStatus = "idle") =>
          \/ (~form.isSubmitting /\ form'.isSubmitting)
          \/ (/\ form'.t - form.setAt >= 5000
              /\ form'.clearedBy = form.setBy)]_vars

\* C28: isSubmitting is true exactly while a submission is in flight (so it
\* is false again once the submission settled, resolved or thrown), and at
\* most one submission is in flight.
C28_SubmittingWhileInFlight ==
    /\ form.inFlight \in {0, 1}
    /\ form.isSubmitting <=> (form.inFlight = 1)

C28_Witness ==
    /\ form.started = 2
    /\ form.lastOutcome = 500
    /\ form.inFlight = 0
    /\ ~form.isSubmitting

\* C29: when a submission settles, submitStatus becomes 'success' and the
\* fields are reset if the answer was OK (2xx); for every other answer (400,
\* 429, 500) and for a network error it becomes 'error' and the fields stay.
C29_OutcomeMapping ==
    [][form'.inFlight < form.inFlight =>
          IF form'.lastOutcome \in 200..299
          THEN form'.submitStatus = "success" /\ form'.fields = "blank"
          ELSE form'.submitStatus = "error" /\ form'.fields = form.fields]_vars

C29_Witness ==
    /\ form.lastOutcome = 429
    /\ form.submitStatus = "error"
    /\ form.fields = "entered"
    /\ ~form.isSubmitting

\* The run of func before the latest call, if any (0 when none).
RunsBeforeLast ==
    IF thr.last.ran THEN SubSeq(thr.runs, 1, Len(thr.runs) - 1) ELSE thr.runs

\* What holds of every throttle whatever the timer does: any two runs are at
\* least limit ms apart, the first call runs, func runs only in a call, and
\* a call that runs comes limit ms or more after the run before it.
ThrottleSpacing ==
    /\ \A i \in 1..(Len(thr.runs) - 1) :
          thr.runs[i + 1] - thr.runs[i] >= thr.limit
    /\ thr.calls >= 1 => (thr.runs # <<>> /\ thr.runs[1] <= thr.last.t)
    /\ Len(thr.runs) <= thr.calls
    /\ thr.last.ran => thr.runs[Len(thr.runs)] = thr.last.t

====
